---- MODULE Spec2Model ----
(***************************************************************************)
(* A model of the ankura topic server (server/server.py) and of the        *)
(* tokenizers it builds its corpus with (ankura/tokenize.py).              *)
(*                                                                         *)
(* Python values are tagged records of one shape, so that any two of them  *)
(* can be compared.  A call that may raise returns a record                *)
(* [ok, val, err]: ok = FALSE stands for the exception named by err.       *)
(***************************************************************************)
EXTENDS Integers, Sequences, FiniteSets, TLC

VARIABLES
    memo,       \* the five in-process caches of ankura.util.memoize, by function name
    disk,       \* the two pickle files of ankura.util.pickle_cache, by builder name
    corpus,     \* the corpus the import pipeline reads from disk (0: unreadable)
    execs,      \* history: runs of the function each memoize wraps, in this process
    builds,     \* history: runs of each builder's body, over all processes
    lost,       \* history: times a valid pickle file was deleted or corrupted
    log,        \* the calls made while handling the last request, in order
    response,   \* the last request and its outcome
    steps,      \* requests handled and outside events so far
    doc,        \* tokenizers: the document read
    tokens,     \* tokenizers: the results of the tokenizer runs on doc
    conv,       \* anchor conversion on its own: dataset, anchors and results
    work,       \* tokenizers: where a running news or html call stands
    answered,   \* history: the summaries first answered in this process, by
                \* dataset and anchor indexes
    race,       \* concurrent first calls of one memoized function
    serving     \* the process got as far as serving requests

vars == <<memo, disk, corpus, execs, builds, lost, log, response, steps,
          doc, tokens, conv, work, answered, race, serving>>

-----------------------------------------------------------------------------
(* Bounds of the model.                                                    *)

MaxSteps == 4
MaxDocLen == 5
MaxNewsLen == 6
MaxPieces == 3
NumCallers == 2

-----------------------------------------------------------------------------
(* Python values.                                                          *)

PNone == [tag |-> "none", i |-> 0, s |-> "", items |-> <<>>]
PInt(n) == [tag |-> "int", i |-> n, s |-> "", items |-> <<>>]
PStr(x) == [tag |-> "str", i |-> 0, s |-> x, items |-> <<>>]
PList(xs) == [tag |-> "list", i |-> 0, s |-> "", items |-> xs]
PTuple(xs) == [tag |-> "tuple", i |-> 0, s |-> "", items |-> xs]

IsSeqVal(v) == v.tag \in {"list", "tuple"}

\* hash(v) succeeds: a list has no hash, a tuple has one when its members have.
RECURSIVE Hashable(_)
Hashable(v) ==
    IF v.tag = "list" THEN FALSE
    ELSE IF v.tag = "tuple" THEN \A k \in 1..Len(v.items) : Hashable(v.items[k])
    ELSE TRUE

Ok(v) == [ok |-> TRUE, val |-> v, err |-> ""]
Raise(e) == [ok |-> FALSE, val |-> PNone, err |-> e]

\* The same value with every tuple read as a list (what JSON shows of it).
RECURSIVE AsList(_)
AsList(v) ==
    IF IsSeqVal(v) THEN PList([k \in 1..Len(v.items) |-> AsList(v.items[k])]) ELSE v

-----------------------------------------------------------------------------
(* The dataset: only its vocabulary matters here.  Dataset d is the one    *)
(* the import pipeline builds from corpus d.                               *)

Datasets == {1, 2}

Vocab(d) ==
    IF d = 1 THEN <<"a", "b", "c">>
    ELSE <<"c", "a", "b", "d", "e", "f", "g", "h", "i", "j", "k">>

VocabSize(d) == Len(Vocab(d))

\* list.index(x): the first position holding x, ValueError when there is none.
ListIndex(xs, x) ==
    IF \E k \in 1..Len(xs) : xs[k] = x
    THEN Ok(PInt((CHOOSE k \in 1..Len(xs) : xs[k] = x /\ \A j \in 1..(k - 1) : xs[j] # x) - 1))
    ELSE Raise("ValueError")

\* xs[i] for a Python list xs: negative i counts from the end.
ListGet(xs, i) ==
    IF 0 <= i /\ i < Len(xs) THEN Ok(PStr(xs[i + 1]))
    ELSE IF -Len(xs) <= i /\ i < 0 THEN Ok(PStr(xs[Len(xs) + i + 1]))
    ELSE Raise("IndexError")

\* Mutant: a term that is not in the vocabulary gets index 0.
convert_anchor_default_index(dataset, anchor) ==
    IF anchor.tag = "int" THEN Ok(anchor)
    ELSE IF anchor.tag = "str" /\ ListIndex(Vocab(dataset), anchor.s).ok
         THEN ListIndex(Vocab(dataset), anchor.s)
    ELSE Ok(PInt(0))

convert_anchor(dataset, anchor) ==
    IF anchor.tag = "int" THEN Ok(anchor)
    ELSE IF anchor.tag = "str" THEN ListIndex(Vocab(dataset), anchor.s)
    ELSE Raise("ValueError")

\* ankura.util.tuplize(obj, conversion): lists and tuples become tuples, at every
\* depth; conversion (convert_anchor of the dataset, when convert) maps the leaves.
RECURSIVE tuplize(_, _, _)
tuplize(obj, convert, dataset) ==
    IF IsSeqVal(obj)
    THEN LET rs == [k \in 1..Len(obj.items) |-> tuplize(obj.items[k], convert, dataset)]
             bad == {k \in 1..Len(rs) : ~rs[k].ok}
         IN  IF bad = {}
             THEN Ok(PTuple([k \in 1..Len(rs) |-> rs[k].val]))
             ELSE Raise(rs[CHOOSE k \in bad : \A j \in bad : k <= j].err)
    ELSE IF convert THEN convert_anchor(dataset, obj)
    ELSE Ok(obj)

\* [dataset.vocab[token] for token in anchor].  A str is iterated character by
\* character: the empty one gives no token, and the first character of any other
\* is a str, which cannot index the vocabulary.  An int or None is not iterable.
TokenifyAnchor(dataset, anchor) ==
    IF anchor.tag = "str"
    THEN IF anchor.s = "" THEN Ok(PList(<<>>)) ELSE Raise("TypeError")
    ELSE IF ~IsSeqVal(anchor) THEN Raise("TypeError")
    ELSE LET rs == [k \in 1..Len(anchor.items) |->
                       IF anchor.items[k].tag = "int"
                       THEN ListGet(Vocab(dataset), anchor.items[k].i)
                       ELSE Raise("TypeError")]
             bad == {k \in 1..Len(rs) : ~rs[k].ok}
         IN  IF bad = {}
             THEN Ok(PList([k \in 1..Len(rs) |-> rs[k].val]))
             ELSE Raise(rs[CHOOSE k \in bad : \A j \in bad : k <= j].err)

\* [[dataset.vocab[token] for token in anchor] for anchor in anchors].  A str
\* for anchors is iterated too: the empty one gives no anchor, and the first
\* character of any other is a one-character anchor, whose token is a str.
Tokenify(dataset, anchors) ==
    IF anchors.tag = "str"
    THEN IF anchors.s = "" THEN Ok(PList(<<>>)) ELSE Raise("TypeError")
    ELSE IF ~IsSeqVal(anchors) THEN Raise("TypeError")
    ELSE LET rs == [k \in 1..Len(anchors.items) |-> TokenifyAnchor(dataset, anchors.items[k])]
             bad == {k \in 1..Len(rs) : ~rs[k].ok}
         IN  IF bad = {}
             THEN Ok(PList([k \in 1..Len(rs) |-> rs[k].val]))
             ELSE Raise(rs[CHOOSE k \in bad : \A j \in bad : k <= j].err)

-----------------------------------------------------------------------------
(* Topics.  A topic matrix has one row per vocabulary term and one column  *)
(* per anchor; it is kept as the sequence of its columns.                  *)

TopN == 10

\* The indexes an anchor names: its members, or itself when it is a single index.
AnchorIndexes(anchor) ==
    IF IsSeqVal(anchor) THEN {anchor.items[k].i : k \in 1..Len(anchor.items)}
    ELSE {anchor.i}

AnchorBase(anchor) ==
    IF IsSeqVal(anchor)
    THEN (IF Len(anchor.items) = 0 THEN 0 ELSE anchor.items[1].i)
    ELSE anchor.i

\* ankura.gramschmidt_anchors(dataset, 20, 500): a deterministic choice of
\* anchors, each a group of one vocabulary index.
gramschmidt_anchors(dataset) ==
    PTuple(<<PTuple(<<PInt(0)>>), PTuple(<<PInt(VocabSize(dataset) - 1)>>)>>)

\* ankura.recover_topics(dataset, anchors): a deterministic weight for every
\* (term, anchor); an index outside the vocabulary is an IndexError.
recover_topics(dataset, anchors) ==
    LET V == VocabSize(dataset)
        k == Len(anchors.items)
        inRange == \A j \in 1..k : \A x \in AnchorIndexes(anchors.items[j]) : 0 <= x /\ x < V
    IN  IF ~IsSeqVal(anchors) THEN Raise("TypeError")
        ELSE IF ~inRange THEN Raise("IndexError")
        ELSE Ok([j \in 1..k |->
                    [w \in 1..V |->
                        IF (w - 1) \in AnchorIndexes(anchors.items[j]) THEN 3
                        ELSE ((w - 1) + AnchorBase(anchors.items[j])) % 3]])

\* numpy.argsort(column): the rows 0..n-1 in ascending order of weight.  The
\* underlying sort is taken to be stable, as spec.md 4.4 words it: rows of equal
\* weight stay in their order.
ArgSort(column) ==
    LET n == Len(column)
        Rank(i) == Cardinality({j \in 1..n :
                       \/ column[j] < column[i]
                       \/ (column[j] = column[i] /\ j < i)})
    IN  [p \in 1..n |-> (CHOOSE i \in 1..n : Rank(i) = p - 1) - 1]

\* xs[-n:]
LastN(xs, n) == IF Len(xs) <= n THEN xs ELSE SubSeq(xs, Len(xs) - n + 1, Len(xs))

\* xs[::-1]
Reverse(xs) == [p \in 1..Len(xs) |-> xs[Len(xs) - p + 1]]

\* Mutant: the slice [-10:] left out.
Summary_no_slice(vocab, column) ==
    LET words == Reverse(ArgSort(column))
    IN  [p \in 1..Len(words) |-> vocab[words[p] + 1]]

\* Mutant: the rows sorted by descending weight at once, equal weights in their
\* order, and the first ten taken.
Summary_sorted_descending(vocab, column) ==
    LET n == Len(column)
        Rank(i) == Cardinality({j \in 1..n :
                       \/ column[j] > column[i]
                       \/ (column[j] = column[i] /\ j < i)})
        sorted == [p \in 1..n |-> CHOOSE i \in 1..n : Rank(i) = p - 1]
        words == IF n <= TopN THEN sorted ELSE SubSeq(sorted, 1, TopN)
    IN  [p \in 1..Len(words) |-> vocab[words[p]]]

\* Mutant: the reversal [::-1] left out.
Summary_not_reversed(vocab, column) ==
    LET words == LastN(ArgSort(column), TopN)
    IN  [p \in 1..Len(words) |-> vocab[words[p] + 1]]

\* One pass of the inner loop of topic_request: the summary of one column.
Summary(vocab, column) ==
    LET words == Reverse(LastN(ArgSort(column), TopN))
    IN  [p \in 1..Len(words) |-> vocab[words[p] + 1]]

\* The outer loop of topic_request: one summary per column of the matrix.
topic_summary(vocab, topics) ==
    [k \in 1..Len(topics) |-> Summary(vocab, topics[k])]

-----------------------------------------------------------------------------
(* Tokenizers.  A document is a sequence of characters, a token too.  A     *)
(* character is a string: a printable ASCII character, \t, \n, \r or \f   *)
(* is written as itself, any other character as the name of its code       *)
(* point, "U+2003".                                                        *)

Alphabet == <<"a", "b", "c", "d", "e", "f", "g", "h", "i", "j", "k", "l", "m", "n",
             "o", "p", "q", "r", "s", "t", "u", "v", "w", "x", "y", "z">>
Capitals == <<"A", "B", "C", "D", "E", "F", "G", "H", "I", "J", "K", "L", "M", "N",
             "O", "P", "Q", "R", "S", "T", "U", "V", "W", "X", "Y", "Z">>

\* The characters of the class [a-z].
Letters == {Alphabet[k] : k \in 1..26}
\* The characters str.split() and str.strip() take for whitespace: those with
\* str.isspace().
Whitespace ==
    {" ", "\t", "\n", "\r", "\f",
     "U+000B", "U+001C", "U+001D", "U+001E", "U+001F", "U+0085", "U+00A0",
     "U+1680", "U+2000", "U+2001", "U+2002", "U+2003", "U+2004", "U+2005",
     "U+2006", "U+2007", "U+2008", "U+2009", "U+200A", "U+2028", "U+2029",
     "U+202F", "U+205F", "U+3000"}
Chars == {"a", "b", "A", "1", " ", "\n", "U+2003", "U+212A"}

\* The characters of [a-z] in c.lower(), lines 20 and 21 on one character.
\* str.lower() changes every cased character, one by one (but for a final
\* sigma, which lowers to another Greek letter); the ones that lower to text
\* with a letter a-z are A-Z, U+212A (KELVIN SIGN, to k) and U+0130 (to i and
\* U+0307), and of what any other character lowers to line 21 keeps nothing.
LowerLetters(c) ==
    IF c \in Letters THEN <<c>>
    ELSE IF \E k \in 1..26 : Capitals[k] = c
         THEN <<Alphabet[CHOOSE k \in 1..26 : Capitals[k] = c]>>
    ELSE IF c = "U+212A" THEN <<"k">>
    ELSE IF c = "U+0130" THEN <<"i">>
    ELSE <<>>

\* re.sub(r'[^a-z]', '', token.lower())
RECURSIVE LowerAlpha(_)
LowerAlpha(token) ==
    IF token = <<>> THEN <<>>
    ELSE LowerLetters(Head(token)) \o LowerAlpha(Tail(token))

\* text.split(): the maximal runs of characters that are not whitespace.
RECURSIVE SplitFrom(_, _, _)
SplitFrom(text, k, cur) ==
    IF k > Len(text) THEN (IF cur = <<>> THEN <<>> ELSE <<cur>>)
    ELSE IF text[k] \in Whitespace
         THEN (IF cur = <<>> THEN <<>> ELSE <<cur>>) \o SplitFrom(text, k + 1, <<>>)
         ELSE SplitFrom(text, k + 1, Append(cur, text[k]))

split(doc_file) == SplitFrom(doc_file, 1, <<>>)

\* re.sub(r'[^a-z]', '', token) on a token as it stands.
RECURSIVE StripNonAlpha(_)
StripNonAlpha(token) ==
    IF token = <<>> THEN <<>>
    ELSE (IF Head(token) \in Letters THEN <<Head(token)>> ELSE <<>>)
         \o StripNonAlpha(Tail(token))

\* [token for token in tokens if token]
RECURSIVE DropEmpty(_)
DropEmpty(toks) ==
    IF toks = <<>> THEN <<>>
    ELSE (IF Head(toks) = <<>> THEN <<>> ELSE <<Head(toks)>>) \o DropEmpty(Tail(toks))

\* Mutant: the tokens are not lower-cased.
simple_no_lower(doc_file) ==
    LET split_tokens == split(doc_file)
        stripped == [k \in 1..Len(split_tokens) |-> StripNonAlpha(split_tokens[k])]
    IN  DropEmpty(stripped)

\* Mutant: the tokens that strip to nothing are kept.
simple_keeps_empty(doc_file) ==
    LET split_tokens == split(doc_file)
    IN  [k \in 1..Len(split_tokens) |-> LowerAlpha(split_tokens[k])]

\* Lines 19 to 23; stripped is the list after lines 20 and 21.
simple(doc_file) ==
    LET split_tokens == split(doc_file)
        stripped == [k \in 1..Len(split_tokens) |-> LowerAlpha(split_tokens[k])]
    IN  DropEmpty(stripped)

\* ' '.join(tokens)
RECURSIVE Join(_)
Join(toks) ==
    IF toks = <<>> THEN <<>>
    ELSE IF Len(toks) = 1 THEN Head(toks)
    ELSE Head(toks) \o <<" ">> \o Join(Tail(toks))

\* line.strip(): the line without its leading and trailing whitespace.
Strip(text) ==
    LET keep == {k \in 1..Len(text) : text[k] \notin Whitespace}
    IN  IF keep = {} THEN <<>>
        ELSE SubSeq(text, CHOOSE k \in keep : \A j \in keep : k <= j,
                          CHOOSE k \in keep : \A j \in keep : j <= k)

\* Mutant: reading at the end of the file is an error.
ReadLine_raises_at_eof(text, pos) ==
    IF pos > Len(text) THEN [ok |-> FALSE, line |-> <<>>, pos |-> pos]
    ELSE LET ends == {k \in pos..Len(text) : text[k] = "\n"}
             e == IF ends = {} THEN Len(text) ELSE CHOOSE k \in ends : \A j \in ends : k <= j
         IN  [ok |-> TRUE, line |-> SubSeq(text, pos, e), pos |-> e + 1]

\* doc_file.readline() with the file at pos: the characters up to and with the
\* next newline, or up to the end of the file; the empty string at the end.
ReadLine(text, pos) ==
    IF pos > Len(text) THEN [ok |-> TRUE, line |-> <<>>, pos |-> pos]
    ELSE LET ends == {k \in pos..Len(text) : text[k] = "\n"}
             e == IF ends = {} THEN Len(text) ELSE CHOOSE k \in ends : \A j \in ends : k <= j
         IN  [ok |-> TRUE, line |-> SubSeq(text, pos, e), pos |-> e + 1]

\* Mutant: only the end of the file ends the header.
HeaderLine_until_eof(line) == line # <<>>

\* The condition of the loop of news: line.strip() is not empty.
HeaderLine(line) == Strip(line) # <<>>

\* doc_file.read() with the file at pos.
ReadRest(text, pos) == SubSeq(text, pos, Len(text))

\* The literal lit stands in text at position i.
At(text, i, lit) ==
    /\ i >= 1 /\ i + Len(lit) - 1 <= Len(text)
    /\ \A k \in 1..Len(lit) : text[i + k - 1] = lit[k]

\* Character c matches the character l of a pattern under (?i), l a lower-case
\* letter or no letter: a letter matches in either case, i also U+0130 and
\* U+0131 (the dotted capital and the dotless small i), s also U+017F (the
\* long s) and k also U+212A.
MatchesIgnoreCase(c, l) ==
    \/ c = l
    \/ \E k \in 1..26 : Alphabet[k] = l /\ Capitals[k] = c
    \/ l = "i" /\ c \in {"U+0130", "U+0131"}
    \/ l = "s" /\ c = "U+017F"
    \/ l = "k" /\ c = "U+212A"

\* Character c matches under (?i) the character g of the text that a group
\* took for a letter: it is g, or the two lower to the same letter a-z.  U+0131
\* and U+017F, which lower to themselves, match themselves only.
BackrefMatches(c, g) ==
    \/ c = g
    \/ LowerLetters(c) # <<>> /\ LowerLetters(c) = LowerLetters(g)

\* The same under (?i), lit in lower case.
AtIgnoreCase(text, i, lit) ==
    /\ i >= 1 /\ i + Len(lit) - 1 <= Len(text)
    /\ \A k \in 1..Len(lit) : MatchesIgnoreCase(text[i + k - 1], lit[k])

\* The end tag </\1> stands in text at position i, group 1 being name.
AtEndTag(text, i, name) ==
    /\ At(text, i, <<"<", "/">>)
    /\ i + Len(name) + 2 <= Len(text)
    /\ \A k \in 1..Len(name) : BackrefMatches(text[i + 1 + k], name[k])
    /\ text[i + Len(name) + 2] = ">"

\* The first position from i on where lit stands, 0 when there is none.
Find(text, i, lit) ==
    LET at == {k \in i..Len(text) : At(text, k, lit)}
    IN  IF at = {} THEN 0 ELSE CHOOSE k \in at : \A j \in at : k <= j

FindEndTag(text, i, name) ==
    LET at == {k \in i..Len(text) : AtEndTag(text, k, name)}
    IN  IF at = {} THEN 0 ELSE CHOOSE k \in at : \A j \in at : k <= j

ElementNames == {<<"s", "c", "r", "i", "p", "t">>, <<"s", "t", "y", "l", "e">>}

\* Where a match of (?is)<(script|style).*?>.*?(</\1>) that starts at i ends
\* (the position after it), 0 when none starts at i.  The lazy .*? stop at the
\* first '>' after the name and at the first end tag after it that holds the
\* name as group 1 took it from the text.
ScriptEnd(text, i) ==
    LET names == {n \in ElementNames : AtIgnoreCase(text, i, <<"<">> \o n)}
    IN  IF names = {} THEN 0
        ELSE LET n == CHOOSE x \in names : TRUE
                 gt == Find(text, i + 1 + Len(n), <<">">>)
                 close == IF gt = 0 THEN 0
                          ELSE FindEndTag(text, gt + 1, SubSeq(text, i + 1, i + Len(n)))
             IN  IF close = 0 THEN 0 ELSE close + Len(n) + 3

\* The same for (?s)<!--(.*?)-->[\n]?
CommentEnd(text, i) ==
    IF ~At(text, i, <<"<", "!", "-", "-">>) THEN 0
    ELSE LET close == Find(text, i + 4, <<"-", "-", ">">>)
         IN  IF close = 0 THEN 0
             ELSE IF At(text, close + 3, <<"\n">>) THEN close + 4 ELSE close + 3

\* The same for (?s)<.*?>
TagEnd(text, i) ==
    IF ~At(text, i, <<"<">>) THEN 0
    ELSE LET gt == Find(text, i + 1, <<">">>)
         IN  IF gt = 0 THEN 0 ELSE gt + 1

LiteralEnd(text, i, lit) == IF At(text, i, lit) THEN i + Len(lit) ELSE 0

Nbsp == <<"&", "n", "b", "s", "p", ";">>

\* Where the match of pattern re that starts at i ends, 0 when none does.
MatchEnd(re, text, i) ==
    CASE re = "script" -> ScriptEnd(text, i)
      [] re = "comment" -> CommentEnd(text, i)
      [] re = "tag" -> TagEnd(text, i)
      [] re = "nbsp" -> LiteralEnd(text, i, Nbsp)
      [] re = "spaces" -> LiteralEnd(text, i, <<" ", " ">>)

\* re.sub(re, repl, text) from position i on: the matches, leftmost first and
\* not overlapping, are replaced by repl.
RECURSIVE SubFrom(_, _, _, _)
SubFrom(re, repl, text, i) ==
    IF i > Len(text) THEN <<>>
    ELSE LET e == MatchEnd(re, text, i)
         IN  IF e = 0 THEN <<text[i]>> \o SubFrom(re, repl, text, i + 1)
             ELSE repl \o SubFrom(re, repl, text, e)

Sub(re, repl, text) == SubFrom(re, repl, text, 1)

\* Lines 48 to 51 of html: strip, then the three substitutions on tags.
html_strip_tags(text) ==
    Sub("tag", <<" ">>, Sub("comment", <<>>, Sub("script", <<>>, Strip(text))))

\* Mutant: a pair of spaces is taken out instead of made one space.
html_collapse_drops_spaces(text) ==
    Strip(Sub("spaces", <<>>, Sub("spaces", <<>>, Sub("nbsp", <<" ">>, text))))

\* Lines 52 to 55 of html.
html_collapse(text) ==
    Strip(Sub("spaces", <<" ">>, Sub("spaces", <<" ">>, Sub("nbsp", <<" ">>, text))))

html(doc_file) == simple(html_collapse(html_strip_tags(doc_file)))

-----------------------------------------------------------------------------
(* The two caching decorators.  A call threads the record                  *)
(*   st = [memo, disk, corpus, execs, builds, log]                         *)
(* through the functions it calls and returns [st, ok, val, err].          *)

Builders == {"get_newsgroups", "default_anchors"}
Memoized == Builders \cup {"get_topics", "reindex_anchors", "tokenify_anchors"}

Ret(st, v) == [st |-> st, ok |-> TRUE, val |-> v, err |-> ""]
Exc(st, e) == [st |-> st, ok |-> FALSE, val |-> PNone, err |-> e]

\* One call event: what happened, in which function, for which argument tuple,
\* with which value.  cached: the in-process cache of f held the tuple at that
\* moment; file: the state of f's pickle file at that moment.
Logged(st, ev, f, key, v) ==
    [st EXCEPT !.log = Append(@, [ev |-> ev, f |-> f, key |-> key, val |-> v,
                                  cached |-> key \in DOMAIN st.memo[f],
                                  file |-> IF f \in Builders THEN st.disk[f].state ELSE ""])]

Put(cache, key, v) == [k \in DOMAIN cache \cup {key} |-> IF k = key THEN v ELSE cache[k]]

NoRuns == [started |-> 0, returned |-> 0, first |-> PNone]
Runs(c, key) == IF key \in DOMAIN c THEN c[key] ELSE NoRuns

\* History: the function that memoize wraps for f starts to run on key ...
Ran(st, ev, f, key) ==
    [Logged(st, ev, f, key, PNone)
        EXCEPT !.execs[f] = Put(@, key, [Runs(@, key) EXCEPT !.started = @ + 1])]
\* ... and returns v.
Returned(st, f, key, v) ==
    Ret([st EXCEPT !.execs[f] =
            Put(@, key, [Runs(@, key) EXCEPT !.returned = @ + 1,
                                             !.first = IF Runs(st.execs[f], key).returned = 0
                                                       THEN v ELSE @])], v)

\* A function body with no calls of its own: it runs and gives r.
Run(st, f, key, r) ==
    IF r.ok THEN Returned(Ran(st, "run", f, key), f, key, r.val)
    ELSE Exc(Ran(st, "run", f, key), r.err)

\* The state in which memoize calls the wrapped function: the key was not found.
Missed(st, f, key) == Logged(st, "miss", f, key, PNone)

\* The argument tuple cannot be a key: the anchors in it (the second argument,
\* after a dataset, which hashes as an object) are not hashable.
Unhashable(key) == Len(key) = 2 /\ ~Hashable(key[2])

\* ankura.util.memoize: the argument tuple is the key, and looking up one that is
\* not hashable is a TypeError before anything runs; a hit returns the stored
\* result, a miss calls the function and stores what it returns.  r is what the
\* wrapped function gives when called in Missed(st, f, key).
memoize(st, f, key, r) ==
    IF Unhashable(key)
    THEN Exc(Logged(st, "unhashable", f, key, PNone), "TypeError")
    ELSE IF key \in DOMAIN st.memo[f]
    THEN Ret(Logged(st, "hit", f, key, st.memo[f][key]), st.memo[f][key])
    ELSE IF r.ok
         THEN Ret(Logged([r.st EXCEPT !.memo[f] = Put(@, key, r.val)],
                         "stored", f, key, r.val), r.val)
         ELSE Exc(Logged(r.st, "raised", f, key, PNone), r.err)

\* The state in which pickle_cache looks for the file, and calls the builder.
Opened(st, name) == Ran(st, "open", name, <<>>)

\* Mutant: any file that is there is loaded, readable or not.
pickle_cache_loads_any(st, name, r) ==
    LET st0 == Opened(st, name)
    IN  IF st0.disk[name].state # "absent"
        THEN Returned(Logged(st0, "load", name, <<>>, st0.disk[name].val),
                      name, <<>>, st0.disk[name].val)
        ELSE IF r.ok
             THEN Returned([Logged(r.st, "dump", name, <<>>, r.val)
                               EXCEPT !.disk[name] = [state |-> "valid", val |-> r.val]],
                           name, <<>>, r.val)
             ELSE Exc(r.st, r.err)

\* ankura.util.pickle_cache(name): a file that is there and readable is loaded and
\* the builder is not called; otherwise the builder is called and its result
\* written to the file.  r is what the builder gives when called in
\* Opened(st, name).
pickle_cache(st, name, r) ==
    LET st0 == Opened(st, name)
    IN  IF st0.disk[name].state = "valid"
        THEN Returned(Logged(st0, "load", name, <<>>, st0.disk[name].val),
                      name, <<>>, st0.disk[name].val)
        ELSE IF r.ok
             THEN Returned([Logged(r.st, "dump", name, <<>>, r.val)
                               EXCEPT !.disk[name] = [state |-> "valid", val |-> r.val]],
                           name, <<>>, r.val)
             ELSE Exc(r.st, r.err)

\* History: the body of builder name starts to run (redundant: while its pickle
\* file is there and readable) ...
Started(st, name) ==
    [Logged(st, "build", name, <<>>, PNone)
        EXCEPT !.builds[name].started = @ + 1,
               !.builds[name].redundant = IF st.disk[name].state = "valid" THEN @ + 1 ELSE @]
\* ... and returns v.
Built(st, name, v) ==
    Ret([st EXCEPT !.builds[name].returned = @ + 1, !.builds[name].last = v], v)

-----------------------------------------------------------------------------
(* The cached functions of the server.                                     *)

\* ankura.run_pipeline(pipeline): the dataset of the corpus on disk; a file that
\* cannot be read makes it raise.
get_newsgroups_body(st) ==
    LET st1 == Started(st, "get_newsgroups")
    IN  IF st1.corpus \in Datasets THEN Built(st1, "get_newsgroups", st1.corpus)
        ELSE Exc(st1, "IOError")

\* Mutant: the two decorators in the other order, pickle_cache outermost.
get_newsgroups_pickle_outside(st) ==
    LET s1 == Opened(st, "get_newsgroups")
    IN  pickle_cache(st, "get_newsgroups",
                     memoize(s1, "get_newsgroups", <<>>,
                             get_newsgroups_body(Missed(s1, "get_newsgroups", <<>>))))

get_newsgroups(st) ==
    LET s1 == Missed(st, "get_newsgroups", <<>>)
    IN  memoize(st, "get_newsgroups", <<>>,
                pickle_cache(s1, "get_newsgroups",
                             get_newsgroups_body(Opened(s1, "get_newsgroups"))))

default_anchors_body(st) ==
    LET st1 == Started(st, "default_anchors")
        r == get_newsgroups(st1)
    IN  IF r.ok THEN Built(r.st, "default_anchors", gramschmidt_anchors(r.val))
        ELSE Exc(r.st, r.err)

\* Mutant: the pickle_cache decorator left out.
default_anchors_no_pickle(st) ==
    memoize(st, "default_anchors", <<>>,
            default_anchors_body(Missed(st, "default_anchors", <<>>)))

default_anchors(st) ==
    LET s1 == Missed(st, "default_anchors", <<>>)
    IN  memoize(st, "default_anchors", <<>>,
                pickle_cache(s1, "default_anchors",
                             default_anchors_body(Opened(s1, "default_anchors"))))

\* Mutant: the memoize decorator left out.
get_topics_no_memoize(st, dataset, anchors) ==
    Run(st, "get_topics", <<dataset, anchors>>, recover_topics(dataset, anchors))

get_topics(st, dataset, anchors) ==
    memoize(st, "get_topics", <<dataset, anchors>>,
            Run(Missed(st, "get_topics", <<dataset, anchors>>),
                "get_topics", <<dataset, anchors>>, recover_topics(dataset, anchors)))

\* Mutant: the cache entry is made before the conversion has succeeded.
reindex_anchors_caches_failure(st, dataset, anchors) ==
    LET r == memoize(st, "reindex_anchors", <<dataset, anchors>>,
                     Run(Missed(st, "reindex_anchors", <<dataset, anchors>>),
                         "reindex_anchors", <<dataset, anchors>>,
                         tuplize(anchors, TRUE, dataset)))
    IN  IF r.ok THEN r
        ELSE Exc([r.st EXCEPT !.memo["reindex_anchors"] = Put(@, <<dataset, anchors>>, PNone)],
                 r.err)

\* Mutant: the anchors are made tuples but their tokens are not converted.
reindex_anchors_no_conversion(st, dataset, anchors) ==
    memoize(st, "reindex_anchors", <<dataset, anchors>>,
            Run(Missed(st, "reindex_anchors", <<dataset, anchors>>),
                "reindex_anchors", <<dataset, anchors>>, tuplize(anchors, FALSE, dataset)))

reindex_anchors(st, dataset, anchors) ==
    memoize(st, "reindex_anchors", <<dataset, anchors>>,
            Run(Missed(st, "reindex_anchors", <<dataset, anchors>>),
                "reindex_anchors", <<dataset, anchors>>, tuplize(anchors, TRUE, dataset)))

tokenify_anchors(st, dataset, anchors) ==
    memoize(st, "tokenify_anchors", <<dataset, anchors>>,
            Run(Missed(st, "tokenify_anchors", <<dataset, anchors>>),
                "tokenify_anchors", <<dataset, anchors>>, Tokenify(dataset, anchors)))

-----
(* The request handlers.  A handler returns [st, resp].                    *)

\* What the query string gives for 'anchors': nothing, or a JSON text.
NoAnchors == [present |-> FALSE, wellformed |-> TRUE, val |-> PNone]
Json(v) == [present |-> TRUE, wellformed |-> TRUE, val |-> v]
BadJson == [present |-> TRUE, wellformed |-> FALSE, val |-> PNone]

T(x) == PStr(x)
N(n) == PInt(n)
L1(x) == PList(<<x>>)
L2(x, y) == PList(<<x, y>>)
P1(x) == PTuple(<<x>>)
P2(x, y) == PTuple(<<x, y>>)

RawInputs ==
    { NoAnchors, BadJson,
      Json(PList(<<>>)),
      Json(L1(T("a"))),
      Json(L1(L1(T("a")))),
      Json(L1(L1(N(0)))),
      Json(L1(L1(T("d")))),
      Json(L2(L2(T("a"), T("b")), L1(T("c")))),
      Json(L2(L1(T("a")), L1(T("c")))),
      Json(L2(L1(T("a")), L1(T("zz")))),
      Json(L1(L2(T("a"), T("zz")))) }

NoResponse ==
    [route |-> "none", raw |-> NoAnchors, ok |-> FALSE, err |-> "",
     dataset |-> 0, used |-> PNone, matrix |-> <<>>,
     has_topics |-> FALSE, topics |-> <<>>, has_anchors |-> FALSE, anchors |-> PNone]

Failed(st, route, raw, dataset, e) ==
    [st |-> st,
     resp |-> [NoResponse EXCEPT !.route = route, !.raw = raw, !.dataset = dataset, !.err = e]]

\* json.loads(raw_anchors), then ankura.util.tuplize.
ParseAnchors(raw) ==
    IF raw.wellformed THEN tuplize(raw.val, FALSE, 0) ELSE Raise("ValueError")

\* Mutant: the anchors are echoed on both paths.
topic_request_always_echoes(st, raw) ==
    LET r1 == get_newsgroups(st)
    IN  IF ~r1.ok THEN Failed(r1.st, "topics", raw, 0, r1.err) ELSE
    LET dataset == r1.val
        p == ParseAnchors(raw)
        r2 == IF ~raw.present THEN default_anchors(r1.st)
              ELSE IF p.ok THEN Ret(r1.st, p.val) ELSE Exc(r1.st, p.err)
    IN  IF ~r2.ok THEN Failed(r2.st, "topics", raw, dataset, r2.err) ELSE
    LET r3 == reindex_anchors(r2.st, dataset, r2.val)
    IN  IF ~r3.ok THEN Failed(r3.st, "topics", raw, dataset, r3.err) ELSE
    LET r4 == get_topics(r3.st, dataset, r3.val)
    IN  IF ~r4.ok THEN Failed(r4.st, "topics", raw, dataset, r4.err) ELSE
    LET r5 == tokenify_anchors(r4.st, dataset, r3.val)
    IN  IF ~r5.ok THEN Failed(r5.st, "topics", raw, dataset, r5.err)
        ELSE [st |-> r5.st,
              resp |-> [NoResponse EXCEPT !.route = "topics", !.raw = raw, !.ok = TRUE,
                                          !.dataset = dataset, !.used = r3.val,
                                          !.matrix = r4.val, !.has_topics = TRUE,
                                          !.topics = topic_summary(Vocab(dataset), r4.val),
                                          !.has_anchors = TRUE, !.anchors = r5.val]]

topic_request(st, raw) ==
    LET r1 == get_newsgroups(st)
    IN  IF ~r1.ok THEN Failed(r1.st, "topics", raw, 0, r1.err) ELSE
    LET dataset == r1.val
        p == ParseAnchors(raw)
        r2 == IF ~raw.present THEN default_anchors(r1.st)
              ELSE IF p.ok THEN Ret(r1.st, p.val) ELSE Exc(r1.st, p.err)
    IN  IF ~r2.ok THEN Failed(r2.st, "topics", raw, dataset, r2.err) ELSE
    LET r3 == reindex_anchors(r2.st, dataset, r2.val)
    IN  IF ~r3.ok THEN Failed(r3.st, "topics", raw, dataset, r3.err) ELSE
    LET r4 == get_topics(r3.st, dataset, r3.val)
    IN  IF ~r4.ok THEN Failed(r4.st, "topics", raw, dataset, r4.err) ELSE
    LET topic_summary_list == topic_summary(Vocab(dataset), r4.val)
        answer == [NoResponse EXCEPT !.route = "topics", !.raw = raw, !.ok = TRUE,
                                     !.dataset = dataset, !.used = r3.val, !.matrix = r4.val,
                                     !.has_topics = TRUE, !.topics = topic_summary_list]
    IN  IF ~raw.present
        THEN LET r5 == tokenify_anchors(r4.st, dataset, r3.val)
             IN  IF ~r5.ok THEN Failed(r5.st, "topics", raw, dataset, r5.err)
                 ELSE [st |-> r5.st,
                       resp |-> [answer EXCEPT !.has_anchors = TRUE, !.anchors = r5.val]]
        ELSE [st |-> r4.st, resp |-> answer]

get_base_anchors(st) ==
    LET r1 == default_anchors(st)
    IN  IF ~r1.ok THEN Failed(r1.st, "base-anchors", NoAnchors, 0, r1.err) ELSE
    LET r2 == get_newsgroups(r1.st)
    IN  IF ~r2.ok THEN Failed(r2.st, "base-anchors", NoAnchors, 0, r2.err) ELSE
    LET r3 == tokenify_anchors(r2.st, r2.val, r1.val)
    IN  IF ~r3.ok THEN Failed(r3.st, "base-anchors", NoAnchors, r2.val, r3.err)
        ELSE [st |-> r3.st,
              resp |-> [NoResponse EXCEPT !.route = "base-anchors", !.ok = TRUE,
                                          !.dataset = r2.val, !.used = r1.val,
                                          !.has_anchors = TRUE, !.anchors = r3.val]]

\* get_vocab, get_vocab_size and get_cooccurrences: each calls get_newsgroups()
\* and answers from the dataset.
get_vocab(st) ==
    LET r1 == get_newsgroups(st)
    IN  IF ~r1.ok THEN Failed(r1.st, "vocab", NoAnchors, 0, r1.err)
        ELSE [st |-> r1.st,
              resp |-> [NoResponse EXCEPT !.route = "vocab", !.ok = TRUE, !.dataset = r1.val]]

\* The script's start: default_anchors() before the server runs.
main(st) ==
    LET r1 == default_anchors(st)
    IN  IF ~r1.ok THEN Failed(r1.st, "main", NoAnchors, 0, r1.err)
        ELSE [st |-> r1.st, resp |-> [NoResponse EXCEPT !.route = "main", !.ok = TRUE]]

-----------------------------------------------------------------------------
(* The server as a state machine.                                          *)

NoCache == <<>>
EmptyMemo == [f \in Memoized |-> NoCache]
NoFile(name) ==
    [state |-> "absent", val |-> IF name = "get_newsgroups" THEN 0 ELSE PNone]

St == [memo |-> memo, disk |-> disk, corpus |-> corpus, execs |-> execs,
       builds |-> builds, log |-> <<>>]

TokIdle == [phase |-> "idle", first |-> <<>>, again |-> <<>>]
ConvIdle == [phase |-> "idle", dataset |-> 1, anchors |-> PNone,
             indices |-> Raise(""), tokens |-> Raise("")]

WorkIdle == [pc |-> "idle", pos |-> 1, line |-> <<>>, reads |-> 0,
             parts |-> <<>>, stripped |-> <<>>, text |-> <<>>]

RaceIdle ==
    [f |-> "none", cache |-> NoCache,
     file |-> [state |-> "absent", val |-> "none", writers |-> {}],
     pc |-> <<>>, local |-> <<>>, ret |-> <<>>, runs |-> 0, hits |-> 0]

PureInit ==
    /\ race = RaceIdle
    /\ doc = <<>>
    /\ tokens = TokIdle
    /\ conv = ConvIdle
    /\ work = WorkIdle

ServerInit ==
    /\ memo = EmptyMemo
    /\ disk = [b \in Builders |-> NoFile(b)]
    /\ corpus = 1
    /\ execs = [f \in Memoized |-> NoCache]
    /\ builds = [b \in Builders |->
                    [started |-> 0, returned |-> 0, redundant |-> 0, last |-> NoFile(b).val]]
    /\ lost = [b \in Builders |-> 0]
    /\ log = <<>>
    /\ response = NoResponse
    /\ steps = 0
    /\ answered = NoCache
    /\ serving = TRUE

Init ==
    /\ ServerInit
    /\ PureInit

\* History: the summaries of an answered topic request are noted under its
\* dataset and anchor indexes, the first time these are answered.
Noted(seen, resp) ==
    IF resp.route = "topics" /\ resp.ok /\ <<resp.dataset, resp.used>> \notin DOMAIN seen
    THEN Put(seen, <<resp.dataset, resp.used>>, resp.topics)
    ELSE seen

\* Lines 149-150: app.run() is reached unless default_anchors() raised, which
\* ends the process before it serves a request.
Serves(resp) == ~(resp.route = "main" /\ ~resp.ok)

\* A handler, or the start of the script, returns in a process that has
\* answered what seen holds.
CommitIn(out, seen) ==
    /\ answered' = Noted(seen, out.resp)
    /\ memo' = out.st.memo
    /\ disk' = out.st.disk
    /\ execs' = out.st.execs
    /\ builds' = out.st.builds
    /\ log' = out.st.log
    /\ response' = out.resp
    /\ serving' = Serves(out.resp)
    /\ steps' = steps + 1
    /\ UNCHANGED <<corpus, lost, race, doc, tokens, conv, work>>

Commit(out) == CommitIn(out, answered)

TopicRequest ==
    /\ serving
    /\ steps < MaxSteps
    /\ \E raw \in RawInputs : Commit(topic_request(St, raw))

BaseAnchorsRequest ==
    /\ serving
    /\ steps < MaxSteps
    /\ Commit(get_base_anchors(St))

VocabRequest ==
    /\ serving
    /\ steps < MaxSteps
    /\ Commit(get_vocab(St))

\* The process ends, or has ended, and a new one starts: the in-process caches are
\* empty again, the files stay.  Run as a script, the new process calls
\* default_anchors() first, and serves only when that call returned.
Restart ==
    /\ steps < MaxSteps
    /\ \E as_script \in BOOLEAN :
          LET fresh == [St EXCEPT !.memo = EmptyMemo,
                                  !.execs = [f \in Memoized |-> NoCache]]
          IN  IF as_script THEN CommitIn(main(fresh), NoCache)
              ELSE CommitIn([st |-> fresh, resp |-> [NoResponse EXCEPT !.route = "start"]],
                            NoCache)

Outside ==
    /\ steps' = steps + 1
    /\ log' = <<>>
    /\ response' = NoResponse
    /\ UNCHANGED <<memo, execs, builds, serving, answered, race, doc, tokens, conv, work>>

\* A pickle file is removed out of band.
DeleteFile ==
    /\ steps < MaxSteps
    /\ \E b \in Builders :
          /\ disk[b].state # "absent"
          /\ disk' = [disk EXCEPT ![b] = NoFile(b)]
          /\ lost' = [lost EXCEPT ![b] = IF disk[b].state = "valid" THEN @ + 1 ELSE @]
    /\ UNCHANGED corpus
    /\ Outside

\* A pickle file is damaged, or left half written by a process that died.
CorruptFile ==
    /\ steps < MaxSteps
    /\ \E b \in Builders :
          /\ disk[b].state # "corrupt"
          /\ disk' = [disk EXCEPT ![b] = [NoFile(b) EXCEPT !.state = "corrupt"]]
          /\ lost' = [lost EXCEPT ![b] = IF disk[b].state = "valid" THEN @ + 1 ELSE @]
    /\ UNCHANGED corpus
    /\ Outside

\* The documents on disk change, or become unreadable.
ChangeCorpus ==
    /\ steps < MaxSteps
    /\ \E c \in Datasets \cup {0} : c # corpus /\ corpus' = c
    /\ UNCHANGED <<disk, lost>>
    /\ Outside

Next ==
    \/ TopicRequest
    \/ BaseAnchorsRequest
    \/ VocabRequest
    \/ Restart
    \/ DeleteFile
    \/ CorruptFile
    \/ ChangeCorpus

Spec == Init /\ [][Next]_vars

-----------------------------------------------------------------------------
(* The two anchor conversions, one after the other, on one anchor set.     *)

Range(xs) == {xs[k] : k \in 1..Len(xs)}

Terms == Range(Vocab(1)) \cup Range(Vocab(2)) \cup {"zz"}

\* Anchor sets as reindex_anchors receives them, the tuples that tuplize made of
\* what a client wrote: one anchor that is a single term, one anchor that is a
\* group of one term, and some of indexes and larger groups.
ConvInputs ==
    {P1(T(t)) : t \in Terms} \cup {P1(P1(T(t))) : t \in Terms}
    \cup {PTuple(<<>>), P1(N(0)), P1(P1(N(0))), P1(P1(N(-1))), P1(P1(N(11))),
          P2(P2(T("a"), T("b")), P1(T("c"))), P2(T("a"), P1(T("b")))}

Outcome(r) == [ok |-> r.ok, val |-> r.val, err |-> r.err]

ConvInit ==
    /\ ServerInit
    /\ race = RaceIdle
    /\ doc = <<>>
    /\ tokens = TokIdle
    /\ work = WorkIdle
    /\ \E d \in Datasets : \E a \in ConvInputs :
          conv = [ConvIdle EXCEPT !.dataset = d, !.anchors = a]

Keep(st) ==
    /\ memo' = st.memo
    /\ execs' = st.execs
    /\ log' = st.log
    /\ UNCHANGED <<disk, corpus, builds, lost, response, steps, serving, answered, race, doc, tokens, work>>

Reindex ==
    /\ conv.phase = "idle"
    /\ LET r == reindex_anchors(St, conv.dataset, conv.anchors)
       IN  /\ conv' = [conv EXCEPT !.phase = "indexed", !.indices = Outcome(r)]
           /\ Keep(r.st)

\* tokenify_anchors on what reindex_anchors returned; when that call raised,
\* so does the composition.
TokenifyIndexed ==
    /\ conv.phase = "indexed"
    /\ LET r == IF conv.indices.ok
                THEN tokenify_anchors(St, conv.dataset, conv.indices.val)
                ELSE Exc(St, conv.indices.err)
       IN  /\ conv' = [conv EXCEPT !.phase = "done", !.tokens = Outcome(r)]
           /\ Keep(r.st)

ConvNext == Reindex \/ TokenifyIndexed

SpecConv == ConvInit /\ [][ConvNext]_vars

-----------------------------------------------------------------------------
(* simple, and simple again on its joined output.                          *)

Docs == UNION {[1..n -> Chars] : n \in 0..MaxDocLen}

TokInit ==
    /\ ServerInit
    /\ race = RaceIdle
    /\ conv = ConvIdle
    /\ tokens = TokIdle
    /\ work = WorkIdle
    /\ doc \in Docs

RunSimple ==
    /\ tokens.phase = "idle"
    /\ tokens' = [tokens EXCEPT !.phase = "first", !.first = simple(doc)]
    /\ UNCHANGED <<memo, disk, corpus, execs, builds, lost, log, response, steps, serving, answered, race, doc, conv, work>>

RunAgain ==
    /\ tokens.phase = "first"
    /\ tokens' = [tokens EXCEPT !.phase = "again", !.again = simple(Join(tokens.first))]
    /\ UNCHANGED <<memo, disk, corpus, execs, builds, lost, log, response, steps, serving, answered, race, doc, conv, work>>

TokNext == RunSimple \/ RunAgain

SpecTok == TokInit /\ [][TokNext]_vars

-----------------------------------------------------------------------------
(* news, one line of its code at a time.                                   *)

NewsChars == {"a", "b", " ", "\n", "\r"}
NewsDocs == UNION {[1..n -> NewsChars] : n \in 0..MaxNewsLen}

NewsInit ==
    /\ ServerInit
    /\ race = RaceIdle
    /\ conv = ConvIdle
    /\ tokens = TokIdle
    /\ doc \in NewsDocs
    /\ work = [WorkIdle EXCEPT !.pc = "start"]

\* line = doc_file.readline(), at line 35 or 37; an exception goes to line 40.
NewsRead ==
    LET r == ReadLine(doc, work.pos)
    IN  /\ work' = IF r.ok
                   THEN [work EXCEPT !.pc = "loop", !.pos = r.pos, !.line = r.line,
                                     !.reads = work.reads + 1]
                   ELSE [work EXCEPT !.pc = "raised"]
        /\ UNCHANGED <<memo, disk, corpus, execs, builds, lost, log, response, steps,
                       serving, answered, race, doc, tokens, conv>>

NewsReadFirst ==
    /\ work.pc = "start"
    /\ NewsRead

NewsSkip ==
    /\ work.pc = "loop"
    /\ HeaderLine(work.line)
    /\ NewsRead

\* return tokenizer(doc_file): the read() of split takes what is left of the
\* file and leaves it at its end.
NewsTokenize ==
    /\ work.pc = "loop"
    /\ ~HeaderLine(work.line)
    /\ work' = [work EXCEPT !.pc = "done", !.pos = Len(doc) + 1]
    /\ tokens' = [tokens EXCEPT !.phase = "first",
                                !.first = simple(ReadRest(doc, work.pos))]
    /\ UNCHANGED <<memo, disk, corpus, execs, builds, lost, log, response, steps,
                   serving, answered, race, doc, conv>>

NewsNext == NewsReadFirst \/ NewsSkip \/ NewsTokenize

SpecNews == NewsInit /\ [][NewsNext]_vars

-----------------------------------------------------------------------------
(* html, on documents put together from pieces of text and markup.  The    *)
(* content of a script or style element is written with x, the content of  *)
(* a comment with c, the text outside them with a and b.                   *)

WordPieces == {<<"a">>,
                <<"b">>}
SpacePieces == {<<" ">>, <<" ", " ">>,
                 <<"\n">>, <<"\t">>}
EntityPieces == {<<"&", "n", "b", "s", "p", ";">>}
TagPieces == {<<"<", "b", ">">>}
StrayPieces == {<<"<">>,
                 <<">">>,
                 <<"<", "/", "s", "c", "r", "i", "p", "t", ">">>}
CommentPieces == {<<"<", "!", "-", "-", "c", "-", "-", ">">>}
ElementPieces == {<<"<", "s", "c", "r", "i", "p", "t", ">", "x", "<", "/", "s", "c", "r", "i", "p", "t", ">">>,
                   <<"<", "S", "C", "R", "I", "P", "T", " ", "t", ">", "x", "\n", "x", "<", "/", "S", "c", "r", "i", "p", "t", ">">>,
                   <<"<", "s", "t", "y", "l", "e", ">", "x", "<", "b", ">", "x", "<", "/", "s", "t", "y", "l", "e", ">">>}

\* A script element whose end tag holds a blank before '>', as HTML allows.
LooseElementPieces ==
    {<<"<", "s", "c", "r", "i", "p", "t", ">", "x", "<", "/", "s", "c", "r", "i", "p", "t", " ", ">">>}
Pieces ==
    WordPieces \cup SpacePieces \cup EntityPieces \cup TagPieces \cup StrayPieces
    \cup CommentPieces \cup ElementPieces \cup LooseElementPieces

RECURSIVE Flatten(_)
Flatten(parts) == IF parts = <<>> THEN <<>> ELSE Head(parts) \o Flatten(Tail(parts))

HtmlInit ==
    /\ ServerInit
    /\ race = RaceIdle
    /\ conv = ConvIdle
    /\ tokens = TokIdle
    /\ \E n \in 0..MaxPieces : \E parts \in [1..n -> Pieces] :
          /\ doc = Flatten(parts)
          /\ work = [WorkIdle EXCEPT !.pc = "start", !.parts = parts]

\* Lines 48 to 51.
HtmlStripTags ==
    /\ work.pc = "start"
    /\ work' = [work EXCEPT !.pc = "stripped", !.stripped = html_strip_tags(doc),
                            !.text = html_strip_tags(doc)]
    /\ UNCHANGED <<memo, disk, corpus, execs, builds, lost, log, response, steps,
                   serving, answered, race, doc, tokens, conv>>

\* Lines 52 to 55.
HtmlCollapse ==
    /\ work.pc = "stripped"
    /\ work' = [work EXCEPT !.pc = "collapsed", !.text = html_collapse(work.text)]
    /\ UNCHANGED <<memo, disk, corpus, execs, builds, lost, log, response, steps,
                   serving, answered, race, doc, tokens, conv>>

\* Line 57: return tokenizer(io.StringIO(text))
HtmlTokenize ==
    /\ work.pc = "collapsed"
    /\ work' = [work EXCEPT !.pc = "done"]
    /\ tokens' = [tokens EXCEPT !.phase = "first", !.first = simple(work.text)]
    /\ UNCHANGED <<memo, disk, corpus, execs, builds, lost, log, response, steps,
                   serving, answered, race, doc, conv>>

HtmlNext == HtmlStripTags \/ HtmlCollapse \/ HtmlTokenize

SpecHtml == HtmlInit /\ [][HtmlNext]_vars

-----------------------------------------------------------------------------
(* Concurrent first calls.  Requests that a threaded host serves at once   *)
(* call one memoized function with the same arguments before any result    *)
(* is cached: get_topics, with no file under it, or get_newsgroups, with   *)
(* pickle_cache under memoize.  Every caller goes through memoize, and     *)
(* under it through pickle_cache, one step at a time.  The function is     *)
(* pure: each run gives "value".                                           *)

Callers == 1..NumCallers
RaceFunctions == {"get_topics", "get_newsgroups"}
RaceKey == <<>>

\* Mutant: memoize puts a placeholder under the key before it calls the function.
OnMiss_reserves(cache, key) == Put(cache, key, "none")

\* memoize on a miss: the cache stays as it is until the function has returned.
OnMiss(cache, key) == cache

\* pickle_cache: the file exists and can be deserialized.
Readable(file) == file.state = "valid"

RaceInit ==
    /\ ServerInit
    /\ doc = <<>>
    /\ tokens = TokIdle
    /\ conv = ConvIdle
    /\ work = WorkIdle
    /\ \E f \in RaceFunctions :
          race = [RaceIdle EXCEPT !.f = f,
                                  !.pc = [t \in Callers |-> "idle"],
                                  !.local = [t \in Callers |-> "none"],
                                  !.ret = [t \in Callers |-> "none"]]

RaceStep(next) ==
    /\ race' = next
    /\ UNCHANGED <<memo, disk, corpus, execs, builds, lost, log, response, steps,
                   doc, tokens, conv, work, serving, answered>>

\* memoize: the key is looked up; a hit returns what is stored.
RaceCall(t) ==
    /\ race.pc[t] = "idle"
    /\ IF RaceKey \in DOMAIN race.cache
       THEN RaceStep([race EXCEPT !.pc[t] = "done", !.ret[t] = race.cache[RaceKey],
                                  !.hits = @ + 1])
       ELSE RaceStep([race EXCEPT !.pc[t] = "miss",
                                  !.cache = OnMiss(race.cache, RaceKey)])

\* get_topics: the function runs.
RaceRun(t) ==
    /\ race.pc[t] = "miss" /\ race.f = "get_topics"
    /\ RaceStep([race EXCEPT !.pc[t] = "computed", !.local[t] = "value",
                             !.runs = @ + 1])

\* pickle_cache: a readable file is loaded, else the builder is to run.
RaceOpen(t) ==
    /\ race.pc[t] = "miss" /\ race.f = "get_newsgroups"
    /\ IF Readable(race.file)
       THEN RaceStep([race EXCEPT !.pc[t] = "computed", !.local[t] = race.file.val])
       ELSE RaceStep([race EXCEPT !.pc[t] = "build"])

RaceBuild(t) ==
    /\ race.pc[t] = "build"
    /\ RaceStep([race EXCEPT !.pc[t] = "built", !.local[t] = "value", !.runs = @ + 1])

\* pickle_cache: the file is opened for writing, which empties it ...
RaceBeginDump(t) ==
    /\ race.pc[t] = "built"
    /\ RaceStep([race EXCEPT !.pc[t] = "dumping",
                             !.file = [state |-> "partial", val |-> "partial",
                                       writers |-> race.file.writers \cup {t}]])

\* ... and written: it is whole once no caller is writing it any more.
RaceEndDump(t) ==
    /\ race.pc[t] = "dumping"
    /\ LET left == race.file.writers \ {t}
       IN  RaceStep([race EXCEPT !.pc[t] = "computed",
                                 !.file = IF left = {}
                                          THEN [state |-> "valid", val |-> race.local[t],
                                                writers |-> {}]
                                          ELSE [race.file EXCEPT !.writers = left]])

\* memoize: the result is stored under the key ...
RaceStore(t) ==
    /\ race.pc[t] = "computed"
    /\ RaceStep([race EXCEPT !.pc[t] = "stored",
                             !.cache = Put(race.cache, RaceKey, race.local[t])])

\* ... and what is stored is returned.
RaceReturn(t) ==
    /\ race.pc[t] = "stored"
    /\ RaceStep([race EXCEPT !.pc[t] = "done", !.ret[t] = race.cache[RaceKey]])

RaceNext ==
    \E t \in Callers :
        \/ RaceCall(t) \/ RaceRun(t) \/ RaceOpen(t) \/ RaceBuild(t)
        \/ RaceBeginDump(t) \/ RaceEndDump(t) \/ RaceStore(t) \/ RaceReturn(t)

SpecRace == RaceInit /\ [][RaceNext]_vars

-----------------------------------------------------------------------------
(* The claims about the two cache levels, checked under Spec.              *)

\* The events of the last request that name function f.
EventsOf(f) == {i \in 1..Len(log) : log[i].f = f}
Happened(ev, f) == \E i \in EventsOf(f) : log[i].ev = ev

\* C1, as stated: within one process the function that memoize wraps is
\* executed at most once per distinct argument tuple.
C1_ExecutedAtMostOnce ==
    \A f \in Memoized : \A k \in DOMAIN execs[f] : execs[f][k].started <= 1

\* C1, amended: within one process the function that memoize wraps returns at
\* most once per distinct argument tuple; the tuple is in the cache exactly when
\* it has returned, with the value of that first execution; no execution starts
\* for a tuple that is in the cache, and every call that returns (a hit, or the
\* first execution) returns that same value.
C1_ReturnsAtMostOnce ==
    /\ \A f \in Memoized : DOMAIN memo[f] \subseteq DOMAIN execs[f]
    /\ \A f \in Memoized : \A k \in DOMAIN execs[f] :
          /\ execs[f][k].returned <= 1
          /\ (k \in DOMAIN memo[f]) <=> (execs[f][k].returned = 1)
          /\ k \in DOMAIN memo[f] => memo[f][k] = execs[f][k].first
    /\ \A i \in 1..Len(log) :
          /\ log[i].ev \in {"run", "open", "miss"} => ~log[i].cached
          /\ log[i].ev = "hit" => log[i].cached
          /\ log[i].ev \in {"hit", "stored"} =>
                log[i].val = execs[log[i].f][log[i].key].first

\* C1, witness: a request that found its topics in the cache.
C1_Witness == response.ok /\ Happened("hit", "get_topics")

\* C2, as stated (its last part): within one process at most one call goes to
\* the pickle file of each builder.
C2_TouchedAtMostOnce ==
    \A b \in Builders : \A k \in DOMAIN execs[b] : execs[b][k].started <= 1

\* C2, amended: a call goes to a builder's pickle file only when the in-process
\* cache has no entry for the builder; a value loaded from the file is in the
\* in-process cache when the request is over; and within one process at most one
\* call that returns goes to the file.
C2_DurableOnlyOnMiss ==
    /\ \A i \in 1..Len(log) :
          /\ log[i].ev \in {"open", "load", "dump"} => ~log[i].cached
          /\ log[i].ev = "load" =>
                /\ <<>> \in DOMAIN memo[log[i].f]
                /\ memo[log[i].f][<<>>] = log[i].val
    /\ \A b \in Builders : \A k \in DOMAIN execs[b] : execs[b][k].returned <= 1

\* C2, witness: a request that loaded a builder's value from its pickle file.
C2_Witness == \E b \in Builders : Happened("load", b) /\ <<>> \in DOMAIN memo[b]

\* C3: a builder's body never starts while its pickle file is there and
\* readable, so it returns at most once more than the file was lost; a readable
\* file holds the value the last build produced, and so does every call of the
\* builder that returns, in whichever process.
C3_BuiltOnceAcrossRestarts ==
    \A b \in Builders :
        /\ builds[b].redundant = 0
        /\ builds[b].returned <= lost[b] + 1
        /\ disk[b].state = "valid" => builds[b].returned >= 1 /\ disk[b].val = builds[b].last
        /\ \A i \in EventsOf(b) :
              log[i].ev \in {"load", "hit", "stored"} => log[i].val = builds[b].last

\* C3, witness: after a restart the dataset comes from the pickle file, although
\* the corpus on disk has changed since it was built, and the builder ran once.
C3_Witness ==
    /\ response.route = "vocab" /\ response.ok
    /\ Happened("load", "get_newsgroups")
    /\ corpus # response.dataset
    /\ builds["get_newsgroups"].started = 1

\* Builder b was called with its pickle file corrupt, in the last request.
CalledOnCorrupt(b) == \E i \in EventsOf(b) : log[i].ev = "open" /\ log[i].file = "corrupt"
BuildsIn(b) == Cardinality({i \in EventsOf(b) : log[i].ev = "build"})

\* C4, as stated: a call that finds the pickle file corrupt runs the builder
\* once, returns its value, and leaves a valid file holding that value.
C4_CorruptAlwaysRebuilt ==
    \A b \in Builders : CalledOnCorrupt(b) =>
        /\ ~Happened("load", b)
        /\ BuildsIn(b) = 1
        /\ \E i \in EventsOf(b) : log[i].ev = "stored" /\ log[i].val = builds[b].last
        /\ disk[b] = [state |-> "valid", val |-> builds[b].last]

\* C4, amended: a call that finds the pickle file corrupt loads nothing from it
\* and runs the builder once; if the builder returns, the call returns its value
\* and leaves a valid file holding that value; if the builder raises, so does
\* the call, and the file stays as it was.
C4_CorruptRebuiltOrRaised ==
    \A b \in Builders : CalledOnCorrupt(b) =>
        /\ ~Happened("load", b)
        /\ BuildsIn(b) = 1
        /\ \/ /\ Happened("dump", b)
              /\ \E i \in EventsOf(b) : log[i].ev = "stored" /\ log[i].val = builds[b].last
              /\ memo[b][<<>>] = builds[b].last
              /\ disk[b] = [state |-> "valid", val |-> builds[b].last]
           \/ /\ ~Happened("dump", b)
              /\ Happened("raised", b)
              /\ disk[b].state = "corrupt"

\* C4, witness: a corrupt file was found and replaced by a valid one.
C4_Witness ==
    \E b \in Builders : CalledOnCorrupt(b) /\ Happened("dump", b) /\ disk[b].state = "valid"

\* C5: when a cached function raised in the last request, its in-process cache
\* has no entry for the argument tuple and it has not returned for that tuple in
\* this process; a builder's pickle file is as the call found it, and not valid.
C5_FailureCachesNothing ==
    \A i \in 1..Len(log) : log[i].ev = "raised" =>
        /\ log[i].key \notin DOMAIN memo[log[i].f]
        /\ Runs(execs[log[i].f], log[i].key).returned = 0
        /\ log[i].f \in Builders =>
              /\ disk[log[i].f].state # "valid"
              /\ \E j \in 1..i : /\ log[j].ev = "open" /\ log[j].f = log[i].f
                                 /\ log[j].file = disk[log[i].f].state

\* C5, witness: a conversion raised, and so did a builder.
C5_Witness ==
    \/ Happened("raised", "reindex_anchors")
    \/ Happened("raised", "get_newsgroups") /\ disk["get_newsgroups"].state = "corrupt"

-----------------------------------------------------------------------------
(* The claims about topic requests, checked under Spec.                    *)

Min(a, b) == IF a <= b THEN a ELSE b

\* Some string in v, at any depth, is no term of dataset d.
RECURSIVE HasUnknownTerm(_, _)
HasUnknownTerm(d, v) ==
    IF IsSeqVal(v) THEN \E k \in 1..Len(v.items) : HasUnknownTerm(d, v.items[k])
    ELSE v.tag = "str" /\ v.s \notin Range(Vocab(d))

TestTerms == {"a", "b", "c", "d", "k", "zz", ""}

\* C7: converting a string that is no term of the vocabulary is a ValueError;
\* a topic request whose anchors hold such a string fails with it: no topics are
\* answered, get_topics is not called, and neither the cache of reindex_anchors
\* nor that of get_topics gets an entry.
C7_UnknownTermFailsRequest ==
    /\ \A d \in Datasets : \A x \in TestTerms :
          x \notin Range(Vocab(d)) =>
              /\ ~convert_anchor(d, PStr(x)).ok
              /\ convert_anchor(d, PStr(x)).err = "ValueError"
    /\ ( /\ response.route = "topics"
         /\ response.raw.present /\ response.raw.wellformed
         /\ response.dataset \in Datasets
         /\ HasUnknownTerm(response.dataset, response.raw.val) )
       => /\ ~response.ok /\ ~response.has_topics /\ response.topics = <<>>
          /\ response.err = "ValueError"
          /\ EventsOf("get_topics") = {}
          /\ ~Happened("stored", "reindex_anchors")
          /\ \A k \in DOMAIN memo["reindex_anchors"] :
                ~(k[1] = response.dataset /\ AsList(k[2]) = response.raw.val)

\* C7, witness: a request failed on an unknown term in a process that had
\* cached conversions and topics before.
C7_Witness ==
    /\ response.route = "topics" /\ response.raw.present /\ response.raw.wellformed
    /\ response.dataset \in Datasets
    /\ HasUnknownTerm(response.dataset, response.raw.val)
    /\ DOMAIN memo["get_topics"] # {}

\* The tokens of index anchors, group by group, in order.
TokenForm(d, anchors) ==
    PList([k \in 1..Len(anchors.items) |->
              PList([j \in 1..Len(anchors.items[k].items) |->
                        PStr(Vocab(d)[anchors.items[k].items[j].i + 1])])])

\* C8: an answered topic request holds topics; it holds anchors exactly when the
\* request gave none, and they are then the tokens of the default anchors, which
\* are the anchors the answered topics were recovered from.
C8_AnchorsEchoedIffDefaulted ==
    (response.route = "topics" /\ response.ok) =>
        /\ response.has_topics
        /\ response.has_anchors <=> ~response.raw.present
        /\ response.has_anchors =>
              /\ <<>> \in DOMAIN memo["default_anchors"]
              /\ response.used = memo["default_anchors"][<<>>]
              /\ response.matrix = recover_topics(response.dataset, response.used).val
              /\ response.topics = topic_summary(Vocab(response.dataset), response.matrix)
              /\ response.anchors = TokenForm(response.dataset, response.used)

\* C8, witness: an answer with the default anchors echoed.
C8_Witness ==
    /\ response.route = "topics" /\ response.ok /\ response.has_anchors
    /\ Len(response.anchors.items) = 2

\* The number of anchors of the last topic request.
AnchorCount ==
    IF response.raw.present THEN Len(response.raw.val.items)
    ELSE Len(memo["default_anchors"][<<>>].items)

\* C9: an answered topic request with k anchors over V terms holds k summaries,
\* each of min(10, V) vocabulary terms, none of them twice.
C9_SummaryShape ==
    (response.route = "topics" /\ response.ok) =>
        LET V == VocabSize(response.dataset)
        IN  /\ Len(response.matrix) = AnchorCount
            /\ Len(response.topics) = AnchorCount
            /\ \A k \in 1..Len(response.topics) :
                  /\ Len(response.topics[k]) = Min(TopN, V)
                  /\ Len(response.topics[k]) <= 10 /\ Len(response.topics[k]) <= V
                  /\ Range(response.topics[k]) \subseteq Range(Vocab(response.dataset))
                  /\ Cardinality(Range(response.topics[k])) = Len(response.topics[k])

\* C9, witness: two anchors over eleven terms, so two summaries of ten terms.
C9_Witness ==
    /\ response.route = "topics" /\ response.ok /\ response.raw.present
    /\ Len(response.topics) = 2
    /\ VocabSize(response.dataset) > TopN
    /\ Len(response.topics[1]) = TopN

-----------------------------------------------------------------------------
(* The claims about the conversions and the tokenizer.                     *)

\* C6: for every term t of the vocabulary, reindex_anchors on the anchor set
\* [t] and then tokenify_anchors on the result gives back [t].
C6_RoundTrip ==
    ( /\ conv.phase = "done"
      /\ \E t \in Range(Vocab(conv.dataset)) : conv.anchors = P1(T(t)) )
    => /\ conv.tokens.ok
       /\ conv.tokens.val = AsList(conv.anchors)

\* What the conversions do give back: an anchor set of groups of terms, [[t]]
\* among them, comes back as it went in.
GroupRoundTrip ==
    ( /\ conv.phase = "done"
      /\ \E t \in Range(Vocab(conv.dataset)) : conv.anchors = P1(P1(T(t))) )
    => /\ conv.tokens.ok
       /\ conv.tokens.val = AsList(conv.anchors)

\* C10: for every document, simple on the output of simple joined with blanks
\* gives the tokens simple gave on the document.
C10_SimpleIdempotent ==
    tokens.phase = "again" => tokens.again = tokens.first

\* C10, witness: a document of which simple lowered a letter, dropped a token
\* that had no letter, and kept two tokens, tokenized twice.
C10_Witness ==
    /\ tokens.phase = "again"
    /\ Len(tokens.first) = 2
    /\ Len(split(doc)) = 3
    /\ "A" \in Range(doc)

-----------------------------------------------------------------------------
(* The claims about news, checked under SpecNews.                          *)

\* Every character up to the first newline is whitespace.
FirstLineBlank(text) ==
    \A k \in 1..Len(text) :
        (\A j \in 1..(k - 1) : text[j] # "\n") => text[k] \in Whitespace

\* C11: of a document whose first line is blank, news returns the tokens the
\* inner tokenizer returns on the whole document.
C11_BlankHeaderIsWholeDocument ==
    (work.pc = "done" /\ FirstLineBlank(doc)) => tokens.first = simple(doc)

\* C11, witness: news returned two tokens of a document that starts with a
\* blank line.
C11_Witness ==
    /\ work.pc = "done" /\ FirstLineBlank(doc)
    /\ Len(tokens.first) = 2
    /\ work.reads = 1

-----------------------------------------------------------------------------
(* The claims about html, checked under SpecHtml.                          *)

\* No '<' of the text has a '>' after it: the text holds no tag.
NoTags(text) ==
    ~\E i \in 1..Len(text) : \E j \in (i + 1)..Len(text) : text[i] = "<" /\ text[j] = ">"

HasNbsp(text) == \E i \in 1..Len(text) : At(text, i, Nbsp)

\* C12 as stated: of a text with no tags, '&nbsp;' and runs of spaces allowed,
\* the steps on tags change nothing and html returns the tokens of simple.
C12_PlainTextAsSimple ==
    (work.pc = "done" /\ NoTags(doc)) =>
        /\ work.stripped = Strip(doc)
        /\ tokens.first = simple(doc)

\* C12, amended: of a text with no tags the steps on tags change nothing; when
\* the text holds no '&nbsp;' either, html returns the tokens of simple.
C12_PlainTextWithoutEntityAsSimple ==
    (work.pc = "done" /\ NoTags(doc)) =>
        /\ work.stripped = Strip(doc)
        /\ ~HasNbsp(doc) => tokens.first = simple(doc)

\* C12, witness: html returned two tokens of a text with no tag and no entity,
\* in which a run of spaces was collapsed.
C12_Witness ==
    /\ work.pc = "done" /\ NoTags(doc) /\ ~HasNbsp(doc)
    /\ Len(tokens.first) = 2
    /\ \E i \in 1..Len(doc) : At(doc, i, <<" ", " ">>)
    /\ work.text # work.stripped

-----------------------------------------------------------------------------
(* The claims about the order of a summary, checked under Spec.            *)

\* The weight of term t in a column of the topic matrix of dataset d.
WeightOf(d, column, t) ==
    column[CHOOSE i \in 1..VocabSize(d) : Vocab(d)[i] = t]

\* Along the summary the weights do not increase, and no term left out weighs
\* more than a term in it.
TopDescending(d, column, summary) ==
    /\ \A p \in 1..Len(summary) : \A q \in (p + 1)..Len(summary) :
          WeightOf(d, column, summary[p]) >= WeightOf(d, column, summary[q])
    /\ \A t \in Range(Vocab(d)) \ Range(summary) : \A p \in 1..Len(summary) :
          WeightOf(d, column, t) <= WeightOf(d, column, summary[p])

\* The row of term t in the vocabulary of dataset d.
RowOf(d, t) == CHOOSE i \in 1..VocabSize(d) : Vocab(d)[i] = t

\* Equal weights stand as the stable ascending sort under the summary leaves
\* them, read backwards: the later row first; and of equal weights at the cut
\* the later rows are the ones kept.
TiesAsSorted(d, column, summary) ==
    /\ \A p \in 1..Len(summary) : \A q \in (p + 1)..Len(summary) :
          WeightOf(d, column, summary[p]) = WeightOf(d, column, summary[q])
              => RowOf(d, summary[p]) > RowOf(d, summary[q])
    /\ \A t \in Range(Vocab(d)) \ Range(summary) : \A p \in 1..Len(summary) :
          WeightOf(d, column, t) = WeightOf(d, column, summary[p])
              => RowOf(d, t) < RowOf(d, summary[p])

-----------------------------------------------------------------------------
(* The claim about concurrent first calls, checked under SpecRace.         *)

AllReturned == \A t \in Callers : race.pc[t] = "done"

\* C14: however concurrent first calls of a memoized function interleave, every
\* call that has returned has returned the function's value; no caller is ever
\* handed a partial value from the cache or the file; and once all have returned
\* the cache holds one entry, that value, and the file under it, if any, that
\* value whole.
C14_RaceKeepsCacheRight ==
    /\ \A t \in Callers :
          /\ race.pc[t] = "done" => race.ret[t] = "value"
          /\ race.pc[t] \in {"computed", "stored"} => race.local[t] = "value"
    /\ AllReturned =>
          /\ DOMAIN race.cache = {RaceKey}
          /\ race.cache[RaceKey] = "value"
          /\ race.runs >= 1
          /\ race.f = "get_newsgroups" =>
                (race.file.state = "valid" /\ race.file.val = "value")
          /\ race.f = "get_topics" => race.file.state = "absent"

\* C14, witness: all callers have returned from get_newsgroups, and the builder
\* ran more than once because they called at the same time.
C14_Witness ==
    /\ AllReturned
    /\ race.f = "get_newsgroups"
    /\ race.runs = NumCallers
    /\ race.hits = 0

-----------------------------------------------------------------------------
(* The claim about the header scan of news, checked under SpecNews.        *)

\* Where the lines of a text start, and where the line that starts at b ends.
LineStarts(text) ==
    {b \in 1..Len(text) : b = 1 \/ text[b - 1] = "\n"}
LineEnd(text, b) ==
    IF \E e \in b..Len(text) : text[e] = "\n"
    THEN CHOOSE e \in b..Len(text) : text[e] = "\n" /\ \A j \in b..(e - 1) : text[j] # "\n"
    ELSE Len(text)

\* The lines that hold nothing but whitespace.
BlankLines(text) ==
    {b \in LineStarts(text) : \A k \in b..LineEnd(text, b) : text[k] \in Whitespace}

\* The text after the first blank line; nothing when there is none.
Body(text) ==
    IF BlankLines(text) = {} THEN <<>>
    ELSE LET b == CHOOSE x \in BlankLines(text) : \A y \in BlankLines(text) : x <= y
         IN  SubSeq(text, LineEnd(text, b) + 1, Len(text))

\* C15: the loop of news reads each line at most once and the end of the file
\* once, and never raises; of a document with no blank line news returns no
\* token; of any document it returns the tokens of what follows the first
\* blank line, none of a line at or before it.
C15_HeaderScanEnds ==
    /\ work.pc \in {"start", "loop", "done"}
    /\ work.reads <= Cardinality(LineStarts(doc)) + 1
    /\ work.pc = "done" =>
          /\ tokens.first = simple(Body(doc))
          /\ BlankLines(doc) = {} =>
                /\ tokens.first = <<>>
                /\ work.reads = Cardinality(LineStarts(doc)) + 1

\* C15, witness: news returned from a document of two lines with words and no
\* blank line, after it read the end of the file.
C15_Witness ==
    /\ work.pc = "done"
    /\ BlankLines(doc) = {}
    /\ Cardinality(LineStarts(doc)) = 2
    /\ Len(simple(doc)) = 2
    /\ work.reads = 3

-----------------------------------------------------------------------------
(* The claim about the structure of converted anchors, under SpecConv.     *)

\* out is in with every string replaced by its position in the vocabulary of d
\* and every integer left as it is: sequences keep their length and order.
RECURSIVE Reindexed(_, _, _)
Reindexed(d, in, out) ==
    IF IsSeqVal(in)
    THEN /\ IsSeqVal(out)
         /\ Len(out.items) = Len(in.items)
         /\ \A k \in 1..Len(in.items) : Reindexed(d, in.items[k], out.items[k])
    ELSE IF in.tag = "int" THEN out = in
    ELSE /\ in.tag = "str" /\ out.tag = "int"
         /\ 0 <= out.i /\ out.i < VocabSize(d)
         /\ Vocab(d)[out.i + 1] = in.s

\* The term a Python list of the vocabulary of d holds at index i.
TermAt(d, i) == IF i >= 0 THEN Vocab(d)[i + 1] ELSE Vocab(d)[VocabSize(d) + i + 1]

\* out holds, anchor by anchor, the terms at the indexes of in: for a group its
\* members' terms in their order, for an anchor that is a single index its term.
Tokenified(d, in, out) ==
    /\ IsSeqVal(out)
    /\ Len(out.items) = Len(in.items)
    /\ \A k \in 1..Len(in.items) :
          IF IsSeqVal(in.items[k])
          THEN /\ IsSeqVal(out.items[k])
               /\ Len(out.items[k].items) = Len(in.items[k].items)
               /\ \A j \in 1..Len(in.items[k].items) :
                     out.items[k].items[j] = PStr(TermAt(d, in.items[k].items[j].i))
          ELSE out.items[k] = PStr(TermAt(d, in.items[k].i))

\* Every index in v is one a list of the size of the vocabulary of d has.
RECURSIVE IndexesInRange(_, _)
IndexesInRange(d, v) ==
    IF IsSeqVal(v) THEN \A k \in 1..Len(v.items) : IndexesInRange(d, v.items[k])
    ELSE v.tag = "int" /\ -VocabSize(d) <= v.i /\ v.i < VocabSize(d)

\* Every anchor of v is a group.
OnlyGroups(v) == \A k \in 1..Len(v.items) : IsSeqVal(v.items[k])

\* C16: what reindex_anchors returns has the anchors of its argument in their
\* order and the members of each group in theirs, integers as they were and
\* strings as their positions in the vocabulary; and tokenify_anchors returns,
\* for indexes of the vocabulary, the anchors of its argument in their order,
\* a group as the terms of its members in theirs, a single index as its term.
C16_StructurePreserved ==
    /\ (conv.phase \in {"indexed", "done"} /\ conv.indices.ok) =>
          Reindexed(conv.dataset, conv.anchors, conv.indices.val)
    /\ ( /\ conv.phase = "done" /\ conv.indices.ok
         /\ IndexesInRange(conv.dataset, conv.indices.val) ) =>
          /\ conv.tokens.ok
          /\ Tokenified(conv.dataset, conv.indices.val, conv.tokens.val)

\* What the conversions do preserve: the structure of an anchor set whose
\* anchors are all groups.
GroupStructurePreserved ==
    /\ (conv.phase \in {"indexed", "done"} /\ conv.indices.ok) =>
          Reindexed(conv.dataset, conv.anchors, conv.indices.val)
    /\ ( /\ conv.phase = "done" /\ conv.indices.ok
         /\ IndexesInRange(conv.dataset, conv.indices.val)
         /\ OnlyGroups(conv.indices.val) ) =>
          /\ conv.tokens.ok
          /\ Tokenified(conv.dataset, conv.indices.val, conv.tokens.val)

-----------------------------------------------------------------------------
(* The claim about the tokens of simple, checked under SpecTok.            *)

\* Where the words of a text start (its runs of characters that are not
\* whitespace), and where the word that starts at b ends.
WordStarts(text) ==
    {b \in 1..Len(text) : text[b] \notin Whitespace /\ (b = 1 \/ text[b - 1] \in Whitespace)}
WordEnd(text, b) ==
    CHOOSE e \in b..Len(text) :
        /\ \A k \in b..e : text[k] \notin Whitespace
        /\ (e = Len(text) \/ text[e + 1] \in Whitespace)

\* The letters of the word at b, lower-cased, in their order.
IsLetter(c) == LowerLetters(c) # <<>>
RECURSIVE LettersOf(_, _, _)
LettersOf(text, b, e) ==
    IF b > e THEN <<>>
    ELSE LowerLetters(text[b]) \o LettersOf(text, b + 1, e)

\* The words that hold a letter, and the n-th of them.
LetterWords(text) == {b \in WordStarts(text) : \E k \in b..WordEnd(text, b) : IsLetter(text[k])}
NthWord(text, n) ==
    CHOOSE b \in LetterWords(text) : Cardinality({x \in LetterWords(text) : x < b}) = n - 1

\* C17: every token simple returns is non-empty and made of the letters a-z; the
\* tokens are the words of the document that hold a letter, in their order and
\* each as often as it stands there, lower-cased and with nothing but their
\* letters; a word that holds no letter gives no token.
C17_SimpleTokens ==
    tokens.phase \in {"first", "again"} =>
        /\ \A k \in 1..Len(tokens.first) :
              /\ tokens.first[k] # <<>>
              /\ \A p \in 1..Len(tokens.first[k]) : tokens.first[k][p] \in Letters
        /\ Len(tokens.first) = Cardinality(LetterWords(doc))
        /\ \A k \in 1..Len(tokens.first) :
              tokens.first[k] =
                  LettersOf(doc, NthWord(doc, k), WordEnd(doc, NthWord(doc, k)))

\* C17, witness: of three words simple returned the same token twice, one of
\* them lower-cased, and dropped the word with no letter.
C17_Witness ==
    /\ tokens.phase = "first"
    /\ Cardinality(WordStarts(doc)) = 3
    /\ Len(tokens.first) = 2
    /\ tokens.first[1] = tokens.first[2]
    /\ "A" \in Range(doc)

-----------------------------------------------------------------------------
(* The claim about markup in html, checked under SpecHtml.                 *)

\* What a piece of a document shows: words and whitespace themselves, a tag or
\* an entity a blank, an element or a comment nothing.
Shown(piece) ==
    IF piece \in WordPieces \cup SpacePieces THEN piece
    ELSE IF piece \in TagPieces \cup EntityPieces THEN <<" ">>
    ELSE <<>>

RECURSIVE ShownText(_)
ShownText(parts) ==
    IF parts = <<>> THEN <<>> ELSE Shown(Head(parts)) \o ShownText(Tail(parts))

\* Every piece is whole markup or text, and no comment stands right before a
\* newline (which the pattern for comments takes with it).
WellFormed(parts) ==
    /\ \A k \in 1..Len(parts) : parts[k] \notin StrayPieces
    /\ \A k \in 1..(Len(parts) - 1) :
          parts[k] \in CommentPieces => parts[k + 1] # <<"\n">>

\* C18: no token html returns holds a character of the content of a script or
\* style element, of a comment or of a tag, whatever the case of the names; and
\* of a document of whole pieces the tokens are those of its text with every
\* tag a blank, so that a tag between two words keeps them apart.
C18_MarkupGivesNoToken ==
    work.pc = "done" =>
        /\ \A k \in 1..Len(tokens.first) : Range(tokens.first[k]) \subseteq {"a", "b"}
        /\ WellFormed(work.parts) => tokens.first = simple(ShownText(work.parts))

\* What html does remove: the elements whose end tag is written with nothing
\* between the name and '>'.
ExactEndTagsGiveNoToken ==
    (work.pc = "done" /\ \A k \in 1..Len(work.parts) : work.parts[k] \notin LooseElementPieces) =>
        /\ \A k \in 1..Len(tokens.first) : Range(tokens.first[k]) \subseteq {"a", "b"}
        /\ WellFormed(work.parts) => tokens.first = simple(ShownText(work.parts))

-----------------------------------------------------------------------------
(* The claim about the key of the topic cache, checked under Spec.         *)

\* The anchors of the last topic request as the handler got them.
GivenAnchors ==
    IF response.raw.present THEN response.raw.val ELSE memo["default_anchors"][<<>>]

\* C19: the anchors topics are recovered from are the indexes of the anchors
\* given, whatever form they were given in; for each dataset and index anchors
\* answered, topic recovery has run once in this process, and the summaries of
\* every answer are those first answered for them.
C19_TopicCacheKeyedByIndexes ==
    (response.route = "topics" /\ response.ok) =>
        LET key == <<response.dataset, response.used>>
        IN  /\ Reindexed(response.dataset, GivenAnchors, response.used)
            /\ key \in DOMAIN memo["get_topics"]
            /\ Runs(execs["get_topics"], key).started = 1
            /\ Runs(execs["get_topics"], key).returned = 1
            /\ key \in DOMAIN answered
            /\ response.topics = answered[key]

\* C19, witness: a request answered from the topic cache, its anchors given in
\* another form than those of the request that filled it.
C19_Witness ==
    /\ response.route = "topics" /\ response.ok /\ response.raw.present
    /\ \E i \in 1..Len(log) : log[i].f = "get_topics" /\ log[i].ev = "hit"
    /\ \E i \in 1..Len(log) : log[i].f = "reindex_anchors" /\ log[i].ev = "stored"
    /\ Cardinality({k \in DOMAIN memo["reindex_anchors"] :
                       memo["reindex_anchors"][k] = response.used}) >= 2

====
